---- MODULE Spec2Model ----
(***************************************************************************)
(* Voice pipeline of voice-qa: speech recognition (core/asr/fun_local.py), *)
(* dialogue (core/connection.py), speech synthesis (core/tts/base.py) and  *)
(* the request handlers that chain them (app.py, test.py).                 *)
(*                                                                         *)
(* Texts, file names and extensions are sequences of character codes, so   *)
(* that lower(), strip(), splitext() and join() are computed and not       *)
(* assumed; <<>> is the empty string.                                      *)
(***************************************************************************)
EXTENDS Integers, Sequences, FiniteSets, TLC

VARIABLES
    fs,                 \* the set of paths at which a file exists
    asr_delete,         \* ASRProvider.delete_audio_file
    asr,                \* frame of the running recognition call
    tts_delete,         \* TTSProviderBase.delete_audio_file
    tts,                \* frame of the running to_tts / to_tts_stream call
    uuid_ctr,           \* number of uuid4() values drawn so far
    req,                \* frame of the running request handler
    conn,               \* the ConnectionHandler of the running request
    janitor,            \* frame of the _schedule_delete task
    inflight            \* frames of the requests served side by side

vars ==
    <<fs, asr_delete, asr, tts_delete, tts, uuid_ctr, req, conn, janitor,
      inflight>>

(***************************************************************************)
(* Bounds of the model.                                                    *)
(***************************************************************************)
MaxFree == 4            \* free space on the output volume ranges over 0..MaxFree
MaxSize == 2            \* payload sizes range over 1..MaxSize
MaxCalls == 7           \* backend invocations counted in one synthesis call
MaxFrags == 2           \* fragments in one language-model stream
MaxUuid == 3            \* uuid4() values drawn in one behaviour
MaxAsrCalls == 1        \* recognition calls made on one provider
MaxChunks == 2          \* encoded chunks of one audio buffer
MaxTurns == 2           \* chat() calls made on one ConnectionHandler
MaxCloses == 2          \* close() calls made on one ConnectionHandler
MaxDelay == 2           \* delays and waiting times of the janitor, in ticks
MaxRequests == 2        \* requests served side by side

(***************************************************************************)
(* Program constants.                                                      *)
(***************************************************************************)
MAX_RETRIES == 2
max_repeat_time == 5

\* Python's None where a path is expected
None == [dir |-> "none", name |-> <<>>]

(***************************************************************************)
(* Characters, names and paths.                                            *)
(***************************************************************************)
\* str.lower() on one character code: A..Z map to a..z, the rest is kept
LowerChar(c) == IF c >= 65 /\ c <= 90 THEN c + 32 ELSE c

\* str.lower()
Lower(s) == [i \in DOMAIN s |-> LowerChar(s[i])]

\* index of the last "." of a name, 0 when there is none
RECURSIVE LastDot(_, _)
LastDot(s, i) ==
    IF i = 0 THEN 0
    ELSE IF s[i] = 46 THEN i
    ELSE LastDot(s, i - 1)

\* os.path.splitext(name)[1]: from the last dot on, empty without a dot or
\* when the only dot leads the name
SplitExt(s) ==
    LET d == LastDot(s, Len(s))
    IN  IF d <= 1 THEN <<>> ELSE SubSeq(s, d, Len(s))

\* supported_formats = [".wav", ".mp3", ".flac", ".m4a"]
supported_formats ==
    { <<46, 119, 97, 118>>, <<46, 109, 112, 51>>,
      <<46, 102, 108, 97, 99>>, <<46, 109, 52, 97>> }

\* os.path.join(self.output_dir, name)
OutPath(name) == [dir |-> "out", name |-> name]

\* a path handed in by the caller
InPath(name) == [dir |-> "in", name |-> name]

\* names of the files the caller has: a.wav, a.WAV, b.Mp3, a.ogg, a
ExistingNames ==
    { <<97, 46, 119, 97, 118>>, <<97, 46, 87, 65, 86>>,
      <<98, 46, 77, 112, 51>>, <<97, 46, 111, 103, 103>>, <<97>> }

\* a name at which the caller has no file: c.wav
MissingNames == { <<99, 46, 119, 97, 118>> }

\* file names the caller hands in
InputNames == ExistingNames \cup MissingNames

\* extensions the caller hands to the stream operation: .wav .WAV .ogg and ""
InputExts ==
    { <<46, 119, 97, 118>>, <<46, 87, 65, 86>>, <<46, 111, 103, 103>>, <<>> }

\* session ids: s1, s2
SessionIds == { <<115, 49>>, <<115, 50>> }

\* texts the recognition engine can return: "" and "hi"
EngineTexts == { <<>>, <<104, 105>> }

(***************************************************************************)
(* Exceptions.  IsOSError is Python's isinstance(e, OSError).              *)
(***************************************************************************)
IsOSError(cls) == cls \in {"OSError", "FileNotFoundError"}

\* the except clause of a recognition operation that catches an exception of
\* class cls; only speech_to_text_from_audio_file has a FileNotFoundError
\* clause, and it comes first
ExceptClause(op, cls) ==
    IF op = "file" /\ cls = "FileNotFoundError" THEN "FileNotFoundError"
    ELSE IF IsOSError(cls) THEN "OSError"
    ELSE "Exception"

(***************************************************************************)
(* What the environment decides in one recognition attempt: the free space *)
(* it reports, where an I/O call faults and how, and what the engine does. *)
(***************************************************************************)
NoFault == [at |-> "none", cls |-> "none", partial |-> FALSE]

IOFaults ==
    {NoFault}
    \cup { [at |-> a, cls |-> c, partial |-> FALSE] :
             a \in {"stat", "write", "read"},
             c \in {"OSError", "FileNotFoundError"} }
    \cup { [at |-> "write", cls |-> "OSError", partial |-> TRUE] }
    \cup { [at |-> "decode", cls |-> "Exception", partial |-> FALSE] }

EngineOutcomes ==
    { [kind |-> "text", text |-> t, cls |-> "none"] : t \in EngineTexts }
    \cup { [kind |-> "raise", text |-> <<>>, cls |-> c] :
             c \in {"Exception", "OSError", "FileNotFoundError"} }

AttemptEnv ==
    [ free : 0..MaxFree, io : IOFaults, eng : EngineOutcomes ]

\* the check against the payload size itself, without the margin
HeadroomFails_NoMargin(free, size) == free < size

\* ResourceGuard: free_space < size * 2 raises OSError
HeadroomFails(free, size) == free < size * 2

\* the free space recorded for an attempt that did not ask for it
NoReading == -1

\* the frame of a recognition call; fs0 is the set of files when the call was
\* made, free_space is what the headroom check of the latest attempt read,
\* and hist has one entry for each attempt: the step that raised and the
\* exception, whether the headroom check ran, whether a write was started,
\* and the files the attempt added
AsrIdle ==
    [ pc |-> "idle", op |-> "none", path |-> None, session_id |-> <<>>,
      ext |-> <<>>, format |-> "none", size |-> 0,
      retry_count |-> 0, file_path |-> None, text |-> <<>>, raised |-> "none",
      attempts |-> 0, engine_calls |-> 0, checks |-> 0, writes |-> 0,
      hist |-> <<>>, calls |-> 0, fs0 |-> {}, free_space |-> NoReading ]

(***************************************************************************)
(* The body of the try block of one attempt, up to the return or the raise.*)
(* The result names the exception class ("none" when the body returned),   *)
(* the text, the value file_path is left with, the files afterwards and    *)
(* which steps ran; cause names the step that raised: "missing" (no such   *)
(* file), "format" (unsupported extension), "decode", "io" (an I/O call    *)
(* faulted), "headroom" (the free-space check), "engine".                  *)
(***************************************************************************)
Outcome(cause, exc, text, fp, files, engine, check, write) ==
    [ cause |-> cause, exc |-> exc, text |-> text, file_path |-> fp,
      fs |-> files, engine |-> engine, check |-> check, write |-> write ]

\* the engine call and what follows it, shared by the three operations
Inference(e, fp, files, check, write) ==
    IF e.eng.kind = "raise"
    THEN Outcome("engine", e.eng.cls, <<>>, fp, files, TRUE, check, write)
    ELSE Outcome("none", "none", e.eng.text, fp, files, TRUE, check, write)

\* save_audio_to_file(pcm_data, session_id), of core/asr/base.py: a .wav
\* named after the session id under the output directory
SaveAudioToFile(session_id) == OutPath(session_id \o <<46, 119, 97, 118>>)

\* speech_to_text, lines 73-107
FramesBody(a, e, files, delete) ==
    IF a.format # "pcm" /\ e.io.at = "decode"
    THEN Outcome("decode", e.io.cls, <<>>, a.file_path, files, FALSE, FALSE, FALSE)
    ELSE IF delete
    THEN Inference(e, a.file_path, files, FALSE, FALSE)
    ELSE IF e.io.at = "stat"
    THEN Outcome("io", e.io.cls, <<>>, a.file_path, files, FALSE, FALSE, FALSE)
    ELSE IF HeadroomFails(e.free, a.size)
    THEN Outcome("headroom", "OSError", <<>>, a.file_path, files, FALSE, TRUE, FALSE)
    ELSE IF e.io.at = "write"
    THEN Outcome("io", e.io.cls, <<>>, a.file_path,
                 IF e.io.partial THEN files \cup {SaveAudioToFile(a.session_id)}
                                 ELSE files,
                 FALSE, TRUE, e.io.partial)
    ELSE Inference(e, SaveAudioToFile(a.session_id),
                   files \cup {SaveAudioToFile(a.session_id)}, TRUE, TRUE)

\* speech_to_text_from_audio_file, lines 148-194
FileBody(a, e, files, delete) ==
    LET file_ext == Lower(SplitExt(a.path.name))
        out == OutPath(a.session_id \o file_ext)
    IN  IF a.path \notin files
        THEN Outcome("missing", "FileNotFoundError", <<>>, a.file_path, files,
                     FALSE, FALSE, FALSE)
        ELSE IF file_ext \notin supported_formats
        THEN Outcome("format", "ValueError", <<>>, a.file_path, files, FALSE, FALSE, FALSE)
        ELSE IF delete
        THEN IF e.io.at = "read"
             THEN Outcome("io", e.io.cls, <<>>, a.file_path, files, FALSE, FALSE, FALSE)
             ELSE Inference(e, a.path, files, FALSE, FALSE)
        ELSE IF e.io.at = "stat"
        THEN Outcome("io", e.io.cls, <<>>, out, files, FALSE, FALSE, FALSE)
        ELSE IF HeadroomFails(e.free, a.size)
        THEN Outcome("headroom", "OSError", <<>>, out, files, FALSE, TRUE, FALSE)
        ELSE IF e.io.at = "write"
        THEN Outcome("io", e.io.cls, <<>>, out,
                     IF e.io.partial THEN files \cup {out} ELSE files,
                     FALSE, TRUE, e.io.partial)
        ELSE IF e.io.at = "read"
        THEN Outcome("io", e.io.cls, <<>>, out, files \cup {out}, FALSE, TRUE, TRUE)
        ELSE Inference(e, out, files \cup {out}, TRUE, TRUE)

\* speech_to_text_from_audio_stream, lines 244-272
StreamBody(a, e, files, delete) ==
    LET out == OutPath(a.session_id \o a.ext)
    IN  IF delete
        THEN Inference(e, a.file_path, files, FALSE, FALSE)
        ELSE IF e.io.at = "stat"
        THEN Outcome("io", e.io.cls, <<>>, out, files, FALSE, FALSE, FALSE)
        ELSE IF HeadroomFails(e.free, a.size)
        THEN Outcome("headroom", "OSError", <<>>, out, files, FALSE, TRUE, FALSE)
        ELSE IF e.io.at = "write"
        THEN Outcome("io", e.io.cls, <<>>, out,
                     IF e.io.partial THEN files \cup {out} ELSE files,
                     FALSE, TRUE, e.io.partial)
        ELSE Inference(e, out, files \cup {out}, TRUE, TRUE)

TryBody(a, e, files, delete) ==
    CASE a.op = "frames" -> FramesBody(a, e, files, delete)
      [] a.op = "file"   -> FileBody(a, e, files, delete)
      [] a.op = "stream" -> StreamBody(a, e, files, delete)

\* the finally clause without its test for the caller's own file
Finally_AnyWorkingFile(a, o, delete) ==
    IF delete /\ o.file_path # None /\ o.file_path \in o.fs
    THEN o.fs \ {o.file_path}
    ELSE o.fs

\* the finally clause: a working file that is not the caller's is removed
\* when retention is off
Finally(a, o, delete) ==
    IF /\ delete
       /\ o.file_path # None
       /\ o.file_path \in o.fs
       /\ (a.op = "file" => o.file_path # a.path)
    THEN o.fs \ {o.file_path}
    ELSE o.fs

\* one iteration of the while loop: try body, except clauses, finally
AttemptFrame(a, o, free, added) ==
    LET counted == [a EXCEPT !.attempts = @ + 1,
                             !.engine_calls = @ + (IF o.engine THEN 1 ELSE 0),
                             !.checks = @ + (IF o.check THEN 1 ELSE 0),
                             !.writes = @ + (IF o.write THEN 1 ELSE 0),
                             !.file_path = o.file_path,
                             !.free_space = IF o.check THEN free
                                            ELSE NoReading,
                             !.hist = Append(@,
                                 [cause |-> o.cause, exc |-> o.exc,
                                  check |-> o.check, write |-> o.write,
                                  added |-> added])]
    IN  IF o.exc = "none"
        THEN [counted EXCEPT !.pc = "returned", !.text = o.text]
        ELSE IF ExceptClause(a.op, o.exc) = "OSError"
        THEN IF a.retry_count + 1 >= MAX_RETRIES
             THEN [counted EXCEPT !.pc = "returned", !.text = <<>>,
                                  !.retry_count = @ + 1]
             ELSE [counted EXCEPT !.retry_count = @ + 1]
        ELSE [counted EXCEPT !.pc = "returned", !.text = <<>>]

(***************************************************************************)
(* Recognition actions.                                                    *)
(***************************************************************************)
\* a call of speech_to_text: lines 64-69
CallFrames(session_id, format, size) ==
    /\ asr.pc = "idle"
    /\ asr.calls < MaxAsrCalls
    /\ asr' = [AsrIdle EXCEPT !.pc = "loop", !.op = "frames",
                              !.calls = asr.calls + 1, !.fs0 = fs,
                              !.session_id = session_id, !.format = format,
                              !.size = size]
    /\ UNCHANGED fs

\* a call of speech_to_text_from_audio_file: lines 136-144
CallFile(path, session_id, size) ==
    /\ asr.pc = "idle"
    /\ asr.calls < MaxAsrCalls
    /\ asr' = [AsrIdle EXCEPT !.pc = "loop", !.op = "file", !.path = path,
                              !.calls = asr.calls + 1, !.fs0 = fs,
                              !.session_id = session_id, !.size = size]
    /\ UNCHANGED fs

\* a call of speech_to_text_from_audio_stream: lines 228-240, where an
\* unsupported extension raises ValueError before the loop
CallStream(session_id, ext, size) ==
    /\ asr.pc = "idle"
    /\ asr.calls < MaxAsrCalls
    /\ asr' = IF Lower(ext) \notin supported_formats
              THEN [AsrIdle EXCEPT !.pc = "raised", !.op = "stream",
                                   !.calls = asr.calls + 1, !.fs0 = fs,
                                   !.session_id = session_id, !.ext = ext,
                                   !.size = size, !.raised = "ValueError"]
              ELSE [AsrIdle EXCEPT !.pc = "loop", !.op = "stream",
                                   !.calls = asr.calls + 1, !.fs0 = fs,
                                   !.session_id = session_id, !.ext = ext,
                                   !.size = size]
    /\ UNCHANGED fs

\* one attempt of the running call
Attempt ==
    /\ asr.pc = "loop"
    /\ asr.retry_count < MAX_RETRIES
    /\ \E e \in AttemptEnv :
         LET o == TryBody(asr, e, fs, asr_delete)
         IN  /\ asr' = AttemptFrame(asr, o, e.free,
                                    Finally(asr, o, asr_delete) \ fs)
             /\ fs' = Finally(asr, o, asr_delete)

\* the caller takes the result and the provider is free for the next call
AsrDone ==
    /\ asr.pc \in {"returned", "raised"}
    /\ asr' = [AsrIdle EXCEPT !.calls = asr.calls]
    /\ UNCHANGED fs

OtherThanAsr ==
    <<asr_delete, tts_delete, tts, uuid_ctr, req, conn, janitor, inflight>>

NextASR ==
    \/ /\ \E s \in SessionIds, f \in {"opus", "pcm"}, n \in 1..MaxSize :
            CallFrames(s, f, n)
       /\ UNCHANGED OtherThanAsr
    \/ /\ \E p \in InputNames, s \in SessionIds, n \in 1..MaxSize :
            CallFile(InPath(p), s, n)
       /\ UNCHANGED OtherThanAsr
    \/ /\ \E s \in SessionIds, x \in InputExts, n \in 1..MaxSize :
            CallStream(s, x, n)
       /\ UNCHANGED OtherThanAsr
    \/ /\ Attempt
       /\ UNCHANGED OtherThanAsr
    \/ /\ AsrDone
       /\ UNCHANGED OtherThanAsr

(***************************************************************************)
(* Speech synthesis: TTSProviderBase.to_tts and to_tts_stream.             *)
(***************************************************************************)
\* generate_filename(): tts-<date>@<uuid4 hex>.wav under the output
\* directory; n stands for the uuid drawn
GenerateFilename(n) ==
    [dir |-> "tts", name |-> <<116, 116, 115, 64, n>> \o <<46, 119, 97, 118>>]

\* what a synthesis call hands back or streams: nothing, encoded chunks of
\* the buffer of one backend invocation, or a path
NoArtifact == [kind |-> "None", path |-> None, buf |-> 0]
DataArtifact(b) == [kind |-> "data", path |-> None, buf |-> b]
PathArtifact(p) == [kind |-> "path", path |-> p, buf |-> 0]

\* audio_bytes_to_data_stream / audio_to_data_stream: the first k encoded
\* chunks of buffer b, in playback order
Chunks(b, k) == [i \in 1..k |-> [buf |-> b, seq |-> i]]

\* the frame of a synthesis call; names are the file names generated in the
\* call, targets the path each backend invocation was told to write, hist
\* what each invocation did, delivered the chunks handed to the callback
TtsIdle ==
    [ pc |-> "idle", op |-> "none", channel |-> "none",
      max_repeat_time |-> 0, tmp_file |-> None, calls |-> 0,
      ret |-> NoArtifact, streamed |-> NoArtifact, delivered |-> <<>>,
      names |-> <<>>, partial |-> FALSE, hist |-> <<>>, targets |-> <<>> ]

\* what the environment decides in one synthesis attempt: what the backend
\* does, how many chunks the encoder delivers before it raises (MaxChunks:
\* it does not raise), and whether os.remove raises
EphemeralBackend == {"raise", "empty", "bytes"}
PersistentBackend == {"raise", "raise_partial", "nofile", "file"}

\* a call of to_tts or to_tts_stream: lines 52-56, 88 and 115-119, 152;
\* channel is the audio format of the attached connection, "none" without one
TtsCall(op, channel) ==
    /\ tts.pc = "idle"
    /\ tts_delete \/ uuid_ctr < MaxUuid
    /\ IF tts_delete
       THEN /\ tts' = [TtsIdle EXCEPT !.pc = "loop", !.op = op,
                                      !.channel = channel,
                                      !.max_repeat_time = max_repeat_time]
            /\ UNCHANGED uuid_ctr
       ELSE /\ tts' = [TtsIdle EXCEPT !.pc = "loop", !.op = op,
                                      !.channel = channel,
                                      !.max_repeat_time = max_repeat_time,
                                      !.tmp_file = GenerateFilename(uuid_ctr + 1),
                                      !.names = <<GenerateFilename(uuid_ctr + 1)>>]
            /\ uuid_ctr' = uuid_ctr + 1
    /\ UNCHANGED fs

\* one iteration of the ephemeral loop, lines 59-77 and 122-140: success
\* returns (to_tts) or breaks and logs (to_tts_stream), anything else costs
\* one of the max_repeat_time attempts
EphemeralAttempt(t, backend, enc) ==
    LET called == [t EXCEPT !.calls = @ + 1]
        buf == t.calls + 1
    IN  IF backend = "bytes"
        THEN IF enc = MaxChunks
             THEN IF t.op = "to_tts"
                  THEN [called EXCEPT !.pc = "returned",
                                      !.ret = DataArtifact(buf),
                                      !.hist = Append(@, "ok")]
                  ELSE [called EXCEPT !.pc = "returned",
                                      !.streamed = DataArtifact(buf),
                                      !.delivered = @ \o Chunks(buf, enc),
                                      !.hist = Append(@, "ok")]
             ELSE [called EXCEPT !.max_repeat_time = @ - 1,
                                 !.delivered =
                                     IF t.op = "to_tts" THEN @
                                     ELSE @ \o Chunks(buf, enc),
                                 !.hist = Append(@, "encode")]
        ELSE [called EXCEPT !.max_repeat_time = @ - 1,
                            !.hist = Append(@, backend)]

\* the ephemeral loop is left when max_repeat_time reaches 0: lines 79-86
\* and 142-150
EphemeralExit(t) ==
    IF t.pc = "loop" /\ t.max_repeat_time <= 0
    THEN IF t.op = "to_tts" THEN [t EXCEPT !.pc = "returned", !.ret = NoArtifact]
                            ELSE [t EXCEPT !.pc = "returned"]
    ELSE t

\* os.remove(tmp_file) of the except clause, guarded by os.path.exists:
\* lines 98-99 and 162-163
RemoveFailed(files, path) == files \ {path}

\* one iteration of the persistent loop: lines 90-100 and 154-164; the
\* result carries the frame and the files.  When os.remove raises, the
\* outer except clause ends the call (lines 112-113 and 176-178).
PersistentAttempt(t, files, backend, rm_ok) ==
    LET called == [t EXCEPT !.calls = @ + 1,
                            !.targets = Append(@, t.tmp_file)]
        written == files \cup {t.tmp_file}
    IN  CASE backend = "file" ->
               [ t |-> [called EXCEPT !.partial = FALSE,
                                      !.hist = Append(@, "ok")],
                 fs |-> written ]
          [] backend = "nofile" ->
               [ t |-> [called EXCEPT !.hist = Append(@, "nofile")],
                 fs |-> files ]
          [] backend = "raise" ->
               [ t |-> [called EXCEPT !.max_repeat_time = @ - 1,
                                      !.hist = Append(@, "raise")],
                 fs |-> files ]
          [] backend = "raise_partial" ->
               IF rm_ok
               THEN [ t |-> [called EXCEPT !.max_repeat_time = @ - 1,
                                           !.partial =
                                               t.tmp_file \in
                                                 RemoveFailed(written, t.tmp_file),
                                           !.hist = Append(@, "raise")],
                      fs |-> RemoveFailed(written, t.tmp_file) ]
               ELSE [ t |-> [called EXCEPT !.pc = "returned",
                                           !.ret = NoArtifact,
                                           !.partial = TRUE,
                                           !.hist = Append(@, "remove")],
                      fs |-> written ]

\* the loop condition without its test for the file
PersistentContinues_NoExistsTest(t, files) == t.max_repeat_time > 0

\* the loop condition of the persistent mode: lines 90 and 154
PersistentContinues(t, files) ==
    t.tmp_file \notin files /\ t.max_repeat_time > 0

\* after the persistent loop: lines 102-111 (to_tts_stream hands the file to
\* _process_audio_file_stream, which encodes it for the attached connection
\* and may raise) and 166-175 (to_tts returns tmp_file)
PersistentExit(t, enc) ==
    IF t.op = "to_tts"
    THEN [t EXCEPT !.pc = "returned", !.ret = PathArtifact(t.tmp_file)]
    ELSE IF t.max_repeat_time > 0
    THEN [t EXCEPT !.pc = "returned",
                   !.streamed = PathArtifact(t.tmp_file),
                   !.delivered = IF t.channel = "none" THEN @
                                 ELSE @ \o Chunks(t.calls, enc)]
    ELSE [t EXCEPT !.pc = "returned"]

\* one backend invocation of the running synthesis call, with what follows
\* it in the loop body
TtsAttempt ==
    /\ tts.pc = "loop"
    /\ tts.calls < MaxCalls
    /\ IF tts_delete
       THEN /\ tts.max_repeat_time > 0
            /\ \E backend \in EphemeralBackend, enc \in 0..MaxChunks :
                 tts' = EphemeralExit(EphemeralAttempt(tts, backend, enc))
            /\ UNCHANGED fs
       ELSE /\ PersistentContinues(tts, fs)
            /\ \E backend \in PersistentBackend, rm_ok \in BOOLEAN :
                 LET r == PersistentAttempt(tts, fs, backend, rm_ok)
                 IN  /\ tts' = r.t
                     /\ fs' = r.fs
    /\ UNCHANGED uuid_ctr

\* the persistent loop has ended: the code after it runs and the call returns
TtsAfterLoop ==
    /\ ~tts_delete
    /\ tts.pc = "loop"
    /\ ~PersistentContinues(tts, fs)
    /\ \E enc \in 0..MaxChunks : tts' = PersistentExit(tts, enc)
    /\ UNCHANGED <<fs, uuid_ctr>>

\* the caller takes the result and the provider is free for the next call
TtsDone ==
    /\ tts.pc = "returned"
    /\ tts' = TtsIdle
    /\ UNCHANGED <<fs, uuid_ctr>>

OtherThanTts == <<asr_delete, asr, tts_delete, req, conn, janitor, inflight>>

NextTTS ==
    \/ /\ \E op \in {"to_tts", "to_tts_stream"},
             channel \in {"none", "pcm", "opus"} : TtsCall(op, channel)
       /\ UNCHANGED OtherThanTts
    \/ /\ TtsAttempt
       /\ UNCHANGED OtherThanTts
    \/ /\ TtsAfterLoop
       /\ UNCHANGED OtherThanTts
    \/ /\ TtsDone
       /\ UNCHANGED OtherThanTts

(***************************************************************************)
(* Dialogue: ConnectionHandler.                                            *)
(***************************************************************************)
\* a uuid4() value as text: "u" and the number of the draw
Uuid(n) == <<117, n>>

\* a fragment of the language-model stream: None or a text
FragNone == [none |-> TRUE, text |-> <<>>]
Frag(t) == [none |-> FALSE, text |-> t]

\* fragments a stream can carry: None, "", "a", "b"
Fragments == { FragNone, Frag(<<>>), Frag(<<97>>), Frag(<<98>>) }

\* the streams of at most MaxFrags fragments
Streams == UNION { [1..n -> Fragments] : n \in 0..MaxFrags }

\* what llm.response does: it raises when called, or it hands back a stream
\* that ends normally or raises once its fragments are consumed
LlmOutcomes ==
    { [raise |-> TRUE, frags |-> <<>>, breaks |-> FALSE] }
    \cup { [raise |-> FALSE, frags |-> f, breaks |-> b] :
             f \in Streams, b \in BOOLEAN }

\* "".join(response_message)
RECURSIVE Join(_)
Join(parts) == IF parts = <<>> THEN <<>> ELSE Head(parts) \o Join(Tail(parts))

Message(role, content) == [role |-> role, content |-> content]

\* abort_at of a turn in which the abort flag was not set
NoAbort == -1

\* ConnectionHandler.__init__, lines 22-44, with the frame of chat();
\* client_abort is first assigned in chat() and never read before that.
\* History of the running turn: frags is the stream llm.response handed
\* back, dialogue0 and text0 are the dialogue and tts_MessageText at entry,
\* stale is the abort flag at entry, abort_at is the number of fragments
\* pulled when the flag was set during the stream, aborted tells that the
\* break of line 77 was taken; last_result is what the turn before returned.
\* close_calls, tts_close_calls and close_raised record what close() did.
NewConn(n) ==
    [ alive |-> TRUE, session_id |-> Uuid(n), llm_finish_task |-> TRUE,
      dialogue |-> <<>>, sentence_id |-> <<>>, tts_MessageText |-> <<>>,
      client_abort |-> FALSE,
      chat_pc |-> "idle", query |-> <<>>, depth |-> 0,
      response_message |-> <<>>, stream |-> <<>>, breaks |-> FALSE,
      pulled |-> 0, result |-> "unset", llm_session |-> <<>>,
      llm_dialogue |-> <<>>, turns |-> 0,
      frags |-> <<>>, dialogue0 |-> <<>>, text0 |-> <<>>,
      aborted |-> FALSE, abort_at |-> NoAbort, stale |-> FALSE,
      last_result |-> "unset",
      close_calls |-> 0, tts_close_calls |-> 0, close_raised |-> "none" ]

ConnNone == [NewConn(0) EXCEPT !.alive = FALSE]

\* the reply takes the place of the dialogue
ChatStore_Overwrites(c) ==
    LET text_buff == Join(c.response_message)
        stored == IF Len(c.response_message) > 0
                  THEN [c EXCEPT !.tts_MessageText = text_buff,
                                 !.dialogue = <<Message("assistant", text_buff)>>]
                  ELSE c
    IN  [stored EXCEPT !.llm_finish_task = TRUE, !.chat_pc = "returned",
                       !.result = "True"]

\* the reply is put into tts_MessageText and not into the dialogue
ChatStore_NoDialogue(c) ==
    LET text_buff == Join(c.response_message)
        stored == IF Len(c.response_message) > 0
                  THEN [c EXCEPT !.tts_MessageText = text_buff]
                  ELSE c
    IN  [stored EXCEPT !.llm_finish_task = TRUE, !.chat_pc = "returned",
                       !.result = "True"]

\* chat(), lines 85-98: the reply is stored and the call returns True
ChatStore(c) ==
    LET text_buff == Join(c.response_message)
        stored == IF Len(c.response_message) > 0
                  THEN [c EXCEPT !.tts_MessageText = text_buff,
                                 !.dialogue =
                                     Append(@, Message("assistant", text_buff))]
                  ELSE c
    IN  [stored EXCEPT !.llm_finish_task = TRUE, !.chat_pc = "returned",
                       !.result = "True"]

\* the abort flag is left as the turn before left it
ResetAbort_Skipped(c) == c

\* chat(), line 73: self.client_abort = False
ResetAbort(c) == [c EXCEPT !.client_abort = FALSE]

\* chat(), lines 49-74: n is the uuid drawn for sentence_id
ChatBegin(c, query, depth, llm, n) ==
    LET top == [c EXCEPT !.llm_finish_task = FALSE,
                         !.query = query, !.depth = depth,
                         !.turns = @ + 1,
                         !.response_message = <<>>, !.pulled = 0,
                         !.result = "unset", !.stream = <<>>,
                         !.breaks = FALSE, !.frags = <<>>,
                         !.dialogue0 = c.dialogue,
                         !.text0 = c.tts_MessageText,
                         !.aborted = FALSE, !.abort_at = NoAbort,
                         !.stale = c.client_abort,
                         !.sentence_id = IF depth = 0 THEN Uuid(n) ELSE @,
                         !.dialogue = IF depth = 0
                                      THEN Append(@, Message("user", query))
                                      ELSE @]
        called == [top EXCEPT !.llm_session = top.session_id,
                              !.llm_dialogue = top.dialogue]
    IN  IF llm.raise
        THEN [called EXCEPT !.chat_pc = "returned", !.result = "None"]
        ELSE [ResetAbort(called) EXCEPT !.chat_pc = "stream",
                                        !.stream = llm.frags,
                                        !.frags = llm.frags,
                                        !.breaks = llm.breaks]

\* chat(), lines 75-83: the for statement asks the stream for its next
\* fragment; the stream is exhausted (the loop ends), raises (the exception
\* leaves chat), or yields a fragment, which is dropped with a break when
\* client_abort is set and kept when it is a non-empty text
ChatIterate(c) ==
    IF c.stream = <<>>
    THEN IF c.breaks
         THEN [c EXCEPT !.chat_pc = "raised", !.result = "unset"]
         ELSE ChatStore(c)
    ELSE LET content == Head(c.stream)
             got == [c EXCEPT !.stream = Tail(@), !.pulled = @ + 1]
         IN  IF c.client_abort
             THEN ChatStore([got EXCEPT !.aborted = TRUE])
             ELSE IF ~content.none /\ Len(content.text) > 0
             THEN [got EXCEPT !.response_message = Append(@, content.text)]
             ELSE got

(***************************************************************************)
(* Request handlers: process_voice_query and text_chat of app.py, main of  *)
(* test.py.                                                                *)
(***************************************************************************)
NoUrl == <<>>

\* "/audio/" + os.path.basename(audio_file)
AudioUrl(path) == <<47, 97, 117, 100, 105, 111, 47>> \o path.name

NoResponse ==
    [ status |-> "none", session_id |-> <<>>, recognized_text |-> <<>>,
      response_text |-> <<>>, audio_url |-> NoUrl ]

ReqIdle ==
    [ pc |-> "idle", kind |-> "none", session_id |-> <<>>, text |-> <<>>,
      delete_audio |-> FALSE, events |-> <<>>, llm_calls |-> 0,
      tts_calls |-> 0, tts_out |-> "none", audio_file |-> None,
      scheduled |-> None, response |-> NoResponse ]

\* str.strip(): blanks are taken off both ends
RECURSIVE LStrip(_)
LStrip(t) == IF t # <<>> /\ Head(t) = 32 THEN LStrip(Tail(t)) ELSE t

RECURSIVE RStrip(_)
RStrip(t) ==
    IF t # <<>> /\ t[Len(t)] = 32 THEN RStrip(SubSeq(t, 1, Len(t) - 1)) ELSE t

Strip(t) == RStrip(LStrip(t))

\* texts a client posts to the text endpoint: "", " ", "hi", " hi "
PostedTexts == { <<>>, <<32>>, <<104, 105>>, <<32, 104, 105, 32>> }

\* the text main() falls back to when its audio file is missing
DemoText == <<20320, 22909>>

\* the module sets initialize_modules can leave behind
ModuleSets == { {"asr", "llm", "tts"}, {"asr", "llm"} }

\* the check of the recognized text left out
RecognitionFailed_Never(text) == FALSE

\* app.py line 91, "if not text": recognition produced nothing
RecognitionFailed(text) == text = <<>>

\* app.py lines 100 and 210, "if not result": chat() reported failure
DialogueFailed(result) == result # "True"

\* app.py lines 103-138 and 212-245: the reply is synthesized into a fresh
\* file, whose url is returned unless the backend raised; n is the uuid
\* drawn for the file name
Synthesize(r, c, backend, n) ==
    LET audio_file == GenerateFilename(n)
        spoke == [r EXCEPT !.pc = "done", !.tts_calls = @ + 1,
                           !.tts_out = backend,
                           !.audio_file = audio_file,
                           !.events = @ \o <<"tts_call", "tts_ret">>]
        audio_url == IF backend \in {"raise", "raise_partial"}
                     THEN NoUrl ELSE AudioUrl(audio_file)
    IN  [spoke EXCEPT !.scheduled =
                          IF audio_url # NoUrl /\ r.delete_audio
                          THEN audio_file ELSE None,
                      !.response =
                          [ status |-> "success",
                            session_id |-> r.session_id,
                            recognized_text |->
                                IF r.kind = "voice" THEN r.text ELSE <<>>,
                            response_text |-> c.tts_MessageText,
                            audio_url |-> audio_url ]]

\* the files after text_to_speak(text, path) did what backend says
Spoken(files, path, backend) ==
    IF backend \in {"file", "raise_partial"} THEN files \cup {path} ELSE files

\* the handler raised: the request ends in an error
Failed(r) == [r EXCEPT !.pc = "failed", !.response.status = "error"]

\* process_voice_query, lines 72-88: up to the call of the recognizer; a
\* missing session id is replaced by a fresh uuid
PVQ_Call(path, session_id, size, modules, delete_audio) ==
    /\ req.pc = "idle"
    /\ LET sid == IF session_id = <<>> THEN Uuid(uuid_ctr + 1) ELSE session_id
           r == [ReqIdle EXCEPT !.kind = "voice", !.delete_audio = delete_audio]
       IN  IF modules # {"asr", "llm", "tts"}
           THEN /\ req' = Failed(r)
                /\ UNCHANGED <<asr, fs, uuid_ctr>>
           ELSE /\ req' = [r EXCEPT !.pc = "asr", !.session_id = sid,
                                    !.events = <<"asr_call">>]
                /\ uuid_ctr' = IF session_id = <<>> THEN uuid_ctr + 1
                               ELSE uuid_ctr
                /\ CallFile(path, sid, size)
    /\ UNCHANGED conn

\* process_voice_query, lines 88-95: the recognizer returned
PVQ_Recognized ==
    /\ req.kind = "voice"
    /\ req.pc = "asr"
    /\ asr.pc = "returned"
    /\ LET r == [req EXCEPT !.text = asr.text,
                            !.events = Append(@, "asr_ret")]
       IN  IF RecognitionFailed(asr.text)
           THEN /\ req' = Failed(r)
                /\ UNCHANGED <<conn, uuid_ctr>>
           ELSE /\ req' = [r EXCEPT !.pc = "dialogue"]
                /\ conn' = NewConn(uuid_ctr + 1)
                /\ uuid_ctr' = uuid_ctr + 1
    /\ asr' = [AsrIdle EXCEPT !.calls = asr.calls]
    /\ UNCHANGED fs

\* conn.chat(text) is entered: app.py lines 97 and 208, test.py line 65
ChatCall ==
    /\ req.pc = "dialogue"
    /\ conn.chat_pc = "idle"
    /\ \E llm \in LlmOutcomes :
         /\ conn' = ChatBegin(conn, req.text, 0, llm, uuid_ctr + 1)
         /\ req' = [req EXCEPT !.llm_calls = @ + 1,
                               !.events = @ \o (IF llm.raise
                                                THEN <<"llm_call", "llm_ret">>
                                                ELSE <<"llm_call">>)]
    /\ uuid_ctr' = uuid_ctr + 1
    /\ UNCHANGED <<asr, fs>>

\* one turn of the for loop of chat()
ChatPull ==
    /\ req.pc = "dialogue"
    /\ conn.chat_pc = "stream"
    /\ conn' = ChatIterate(conn)
    /\ req' = IF conn'.chat_pc = "stream" THEN req
              ELSE [req EXCEPT !.events = Append(@, "llm_ret")]
    /\ UNCHANGED <<asr, fs, uuid_ctr>>

\* another thread sets the abort flag of the connection
SetAbort ==
    /\ conn.alive
    /\ ~conn.client_abort
    /\ conn' = [conn EXCEPT !.client_abort = TRUE,
                            !.abort_at = IF conn.chat_pc = "stream"
                                         THEN conn.pulled ELSE @]
    /\ UNCHANGED <<asr, fs, uuid_ctr, req>>

\* process_voice_query, lines 98-142, and text_chat, lines 208-251: chat()
\* is over
Respond ==
    /\ req.kind \in {"voice", "text"}
    /\ req.pc = "dialogue"
    /\ conn.chat_pc \in {"returned", "raised"}
    /\ IF conn.chat_pc = "raised" \/ DialogueFailed(conn.result)
       THEN /\ req' = Failed(req)
            /\ UNCHANGED <<fs, uuid_ctr>>
       ELSE \E backend \in PersistentBackend :
              /\ req' = Synthesize(req, conn, backend, uuid_ctr + 1)
              /\ fs' = Spoken(fs, GenerateFilename(uuid_ctr + 1), backend)
              /\ uuid_ctr' = uuid_ctr + 1
    /\ UNCHANGED <<asr, conn>>

\* text_chat, lines 192-207: up to the call of chat()
TC_Call(text, modules, delete_audio) ==
    /\ req.pc = "idle"
    /\ LET r == [ReqIdle EXCEPT !.kind = "text", !.delete_audio = delete_audio,
                                !.text = Strip(text)]
       IN  IF Strip(text) = <<>> \/ ~({"llm", "tts"} \subseteq modules)
           THEN /\ req' = Failed(r)
                /\ UNCHANGED <<conn, uuid_ctr>>
           ELSE /\ req' = [r EXCEPT !.pc = "dialogue"]
                /\ conn' = NewConn(uuid_ctr + 1)
                /\ uuid_ctr' = uuid_ctr + 1
    /\ UNCHANGED <<asr, fs>>

\* main of test.py, lines 36-60: the audio file is recognized when it
\* exists, and replaced by a demonstration text when it does not
Main_Call(path, size) ==
    /\ req.pc = "idle"
    /\ LET r == [ReqIdle EXCEPT !.kind = "main",
                                !.session_id = Uuid(uuid_ctr + 1)]
       IN  IF path \in fs
           THEN /\ req' = [r EXCEPT !.pc = "asr", !.events = <<"asr_call">>]
                /\ CallFile(path, Uuid(uuid_ctr + 1), size)
                /\ uuid_ctr' = uuid_ctr + 1
                /\ UNCHANGED conn
           ELSE /\ req' = [r EXCEPT !.pc = "dialogue", !.text = DemoText]
                /\ conn' = NewConn(uuid_ctr + 2)
                /\ uuid_ctr' = uuid_ctr + 2
                /\ UNCHANGED <<asr, fs>>

\* main of test.py, lines 50-63: the recognizer returned
Main_Recognized ==
    /\ req.kind = "main"
    /\ req.pc = "asr"
    /\ asr.pc = "returned"
    /\ req' = [req EXCEPT !.text = asr.text,
                          !.events = Append(@, "asr_ret"),
                          !.pc = IF asr.text # <<>> THEN "dialogue" ELSE "done"]
    /\ conn' = NewConn(uuid_ctr + 1)
    /\ uuid_ctr' = uuid_ctr + 1
    /\ asr' = [AsrIdle EXCEPT !.calls = asr.calls]
    /\ UNCHANGED fs

\* main of test.py, lines 65-88: chat() is over; its result is logged and
\* the reply is synthesized whatever it is, and an exception ends main
Main_Speak ==
    /\ req.kind = "main"
    /\ req.pc = "dialogue"
    /\ conn.chat_pc \in {"returned", "raised"}
    /\ IF conn.chat_pc = "raised"
       THEN /\ req' = Failed(req)
            /\ UNCHANGED <<fs, uuid_ctr>>
       ELSE \E backend \in PersistentBackend :
              /\ req' = [req EXCEPT
                           !.pc = IF backend \in {"raise", "raise_partial"}
                                  THEN "failed" ELSE "done",
                           !.tts_calls = @ + 1, !.tts_out = backend,
                           !.audio_file = GenerateFilename(uuid_ctr + 1),
                           !.events = @ \o <<"tts_call", "tts_ret">>]
              /\ fs' = Spoken(fs, GenerateFilename(uuid_ctr + 1), backend)
              /\ uuid_ctr' = uuid_ctr + 1
    /\ UNCHANGED <<asr, conn>>

OtherThanApp == <<asr_delete, tts_delete, tts, janitor, inflight>>

Next ==
    \/ /\ \E p \in InputNames, s \in SessionIds \cup {<<>>}, n \in 1..MaxSize,
             m \in ModuleSets, d \in BOOLEAN :
            PVQ_Call(InPath(p), s, n, m, d)
       /\ UNCHANGED OtherThanApp
    \/ /\ req.pc = "asr"
       /\ Attempt
       /\ UNCHANGED <<req, conn, uuid_ctr>>
       /\ UNCHANGED OtherThanApp
    \/ /\ PVQ_Recognized
       /\ UNCHANGED OtherThanApp
    \/ /\ ChatCall
       /\ UNCHANGED OtherThanApp
    \/ /\ ChatPull
       /\ UNCHANGED OtherThanApp
    \/ /\ SetAbort
       /\ UNCHANGED OtherThanApp
    \/ /\ Respond
       /\ UNCHANGED OtherThanApp
    \/ /\ \E t \in PostedTexts, m \in ModuleSets, d \in BOOLEAN :
            TC_Call(t, m, d)
       /\ UNCHANGED OtherThanApp
    \/ /\ \E p \in InputNames, n \in 1..MaxSize : Main_Call(InPath(p), n)
       /\ UNCHANGED OtherThanApp
    \/ /\ Main_Recognized
       /\ UNCHANGED OtherThanApp
    \/ /\ Main_Speak
       /\ UNCHANGED OtherThanApp

(***************************************************************************)
(* A session driven turn by turn: the ConnectionHandler is built, chat()   *)
(* is called on it again and again, another thread sets the abort flag,    *)
(* and close() is called.                                                  *)
(***************************************************************************)
\* the attributes __init__ assigns, lines 22-44; the assignments of
\* stop_event and executor are commented out, lines 27-29
ConnAttrs ==
    { "config", "session_id", "logger", "vad", "asr", "tts", "_asr", "llm",
      "llm_finish_task", "dialogue", "sentence_id", "tts_MessageText" }

\* reading self.<name> raises AttributeError without the attribute
HasAttr(name) == name \in ConnAttrs

\* close(), lines 100-125: the try body reads self.stop_event, awaits
\* self.tts.close() (tts_ok: it does not raise) and reads self.executor; an
\* exception of the body is logged by the except clause; the finally clause
\* reads self.stop_event again, outside any handler
Close(c, tts_ok) ==
    LET tts_reached == HasAttr("stop_event")
        finally_raises == ~HasAttr("stop_event")
    IN  [c EXCEPT !.close_calls = @ + 1,
                  !.tts_close_calls = @ + (IF tts_reached THEN 1 ELSE 0),
                  !.close_raised = IF finally_raises THEN "AttributeError"
                                   ELSE "none"]

\* ConnectionHandler(config, tts, asr, llm)
Connect ==
    /\ ~conn.alive
    /\ conn' = NewConn(uuid_ctr + 1)
    /\ uuid_ctr' = uuid_ctr + 1

\* the depths of the next chat() call: the first call of a session is a
\* top-level one, a later call may be nested
NextDepths == IF conn.turns = 0 THEN {0} ELSE {0, 1}

\* conn.chat(query, depth) is entered; a closed session is not talked to
\* again
Turn(query, depth) ==
    /\ conn.alive
    /\ conn.chat_pc = "idle"
    /\ conn.close_calls = 0
    /\ conn.turns < MaxTurns
    /\ \E llm \in LlmOutcomes :
         conn' = ChatBegin(conn, query, depth, llm, uuid_ctr + 1)
    /\ uuid_ctr' = IF depth = 0 THEN uuid_ctr + 1 ELSE uuid_ctr

\* one turn of the for loop of chat()
Pull ==
    /\ conn.alive
    /\ conn.chat_pc = "stream"
    /\ conn' = ChatIterate(conn)
    /\ UNCHANGED uuid_ctr

\* the caller takes the result of chat(), or the exception that left it,
\* and the frame of the call is gone
ChatReturn ==
    /\ conn.alive
    /\ conn.chat_pc \in {"returned", "raised"}
    /\ conn' = [conn EXCEPT !.chat_pc = "idle",
                            !.last_result = IF conn.chat_pc = "raised"
                                            THEN "raised" ELSE conn.result,
                            !.query = <<>>, !.depth = 0,
                            !.response_message = <<>>, !.stream = <<>>,
                            !.breaks = FALSE, !.pulled = 0,
                            !.result = "unset", !.frags = <<>>,
                            !.dialogue0 = <<>>, !.text0 = <<>>,
                            !.aborted = FALSE, !.abort_at = NoAbort,
                            !.stale = FALSE,
                            !.llm_session = <<>>, !.llm_dialogue = <<>>]
    /\ UNCHANGED uuid_ctr

\* await conn.close()
CloseCall ==
    /\ conn.alive
    /\ conn.chat_pc = "idle"
    /\ conn.close_calls < MaxCloses
    /\ \E tts_ok \in BOOLEAN : conn' = Close(conn, tts_ok)
    /\ UNCHANGED uuid_ctr

OtherThanChat ==
    <<fs, asr_delete, asr, tts_delete, tts, req, janitor, inflight>>

NextChat ==
    \/ /\ Connect
       /\ UNCHANGED OtherThanChat
    \/ /\ \E q \in {<<104, 105>>}, d \in NextDepths : Turn(q, d)
       /\ UNCHANGED OtherThanChat
    \/ /\ Pull
       /\ UNCHANGED OtherThanChat
    \/ /\ SetAbort
       /\ UNCHANGED OtherThanApp
    \/ /\ ChatReturn
       /\ UNCHANGED OtherThanChat
    \/ /\ CloseCall
       /\ UNCHANGED OtherThanChat

(***************************************************************************)
(* The janitor: _schedule_delete of app.py, started as a task by the       *)
(* request handlers.  Time is counted in ticks.                            *)
(***************************************************************************)
JanitorIdle ==
    [ pc |-> "idle", path |-> None, delay |-> 0, elapsed |-> 0,
      woke_at |-> 0, existed |-> FALSE, removes |-> 0, remove_ok |-> FALSE,
      left |-> FALSE, raised |-> "none" ]

\* the files a janitor is scheduled for: the names the synthesizer generates
JanitorPaths == { GenerateFilename(n) : n \in 1..2 }

\* the sleep is over at once, whatever the delay
DelayElapsed_AtOnce(j) == TRUE

\* await asyncio.sleep(delay), line 38, is over
DelayElapsed(j) == j.elapsed >= j.delay

\* the except clause of line 43 catches every Exception
JanitorCatches(cls) == cls \in {"OSError", "FileNotFoundError", "Exception"}

\* lines 39-45 once the sleep is over: the file is removed when it exists;
\* rm is "ok" or the class of the exception os.remove raises
JanitorWake(j, files, rm) ==
    LET exists == j.path \in files
        after == IF exists /\ rm = "ok" THEN files \ {j.path} ELSE files
        exc == IF exists /\ rm # "ok" THEN rm ELSE "none"
    IN  [ j |-> [j EXCEPT !.pc = "done", !.woke_at = j.elapsed,
                          !.existed = exists,
                          !.removes = @ + (IF exists THEN 1 ELSE 0),
                          !.remove_ok = exists /\ rm = "ok",
                          !.left = j.path \in after,
                          !.raised = IF exc = "none" \/ JanitorCatches(exc)
                                     THEN "none" ELSE exc],
          fs |-> after ]

\* asyncio.create_task(_schedule_delete(audio_file, delay)): app.py lines
\* 125 and 234
ScheduleDelete(path, delay) ==
    /\ janitor.pc = "idle"
    /\ janitor' = [JanitorIdle EXCEPT !.pc = "sleeping", !.path = path,
                                      !.delay = delay]
    /\ UNCHANGED fs

\* one tick of time passes
Tick ==
    /\ janitor.pc = "sleeping"
    /\ janitor.elapsed < MaxDelay
    /\ janitor' = [janitor EXCEPT !.elapsed = @ + 1]
    /\ UNCHANGED fs

\* the task wakes up and runs to its end
Wake ==
    /\ janitor.pc = "sleeping"
    /\ DelayElapsed(janitor)
    /\ \E rm \in {"ok", "OSError", "FileNotFoundError"} :
         LET r == JanitorWake(janitor, fs, rm)
         IN  /\ janitor' = r.j
             /\ fs' = r.fs

\* the synthesizer writes the file, or somebody else removes it
FileWritten(path) ==
    /\ path \notin fs
    /\ fs' = fs \cup {path}
    /\ UNCHANGED janitor

FileRemoved(path) ==
    /\ path \in fs
    /\ fs' = fs \ {path}
    /\ UNCHANGED janitor

OtherThanJanitor ==
    <<asr_delete, asr, tts_delete, tts, uuid_ctr, req, conn, inflight>>

NextJanitor ==
    \/ /\ \E p \in JanitorPaths, d \in 0..MaxDelay : ScheduleDelete(p, d)
       /\ UNCHANGED OtherThanJanitor
    \/ /\ Tick
       /\ UNCHANGED OtherThanJanitor
    \/ /\ Wake
       /\ UNCHANGED OtherThanJanitor
    \/ /\ \E p \in JanitorPaths : FileWritten(p)
       /\ UNCHANGED OtherThanJanitor
    \/ /\ \E p \in JanitorPaths : FileRemoved(p)
       /\ UNCHANGED OtherThanJanitor
(***************************************************************************)
(* Requests served side by side: process_voice_query is a coroutine, and   *)
(* while one request is suspended at an await another one runs.  The       *)
(* recognition call has no await inside and runs as one step; the dialogue *)
(* writes no file and is left out.                                         *)
(***************************************************************************)
Requests == 1..MaxRequests

\* the frame of one request; written holds the paths of the shared output
\* directories the request wrote to
FlightIdle ==
    [ pc |-> "idle", session_id |-> <<>>, path |-> None, written |-> {} ]

\* what the environment does in the attempts of these requests: enough or no
\* free space, no fault or a write that fails half way, a text or none
FlightEnvs ==
    { [free |-> f, io |-> i, eng |-> g] :
        f \in {0, MaxFree},
        i \in {NoFault, [at |-> "write", cls |-> "OSError", partial |-> TRUE]},
        g \in { [kind |-> "text", text |-> t, cls |-> "none"] :
                  t \in EngineTexts } }

\* one iteration of the loop of a recognition call on frame a: the frame and
\* the files afterwards, and the path the iteration wrote to
AttemptOn(a, files, e) ==
    LET o == TryBody(a, e, files, asr_delete)
        after == Finally(a, o, asr_delete)
    IN  [ a |-> AttemptFrame(a, o, e.free, after \ files),
          fs |-> after,
          wrote |-> IF o.write THEN {o.file_path} ELSE {} ]

\* speech_to_text_from_audio_file(path, session_id), lines 136-225, from the
\* call to the return: at most MAX_RETRIES iterations
RecognizeFile(path, session_id, size, files, e1, e2) ==
    LET a0 == [AsrIdle EXCEPT !.pc = "loop", !.op = "file", !.path = path,
                              !.session_id = session_id, !.size = size,
                              !.fs0 = files]
        first == AttemptOn(a0, files, e1)
        second == AttemptOn(first.a, first.fs, e2)
    IN  IF first.a.pc = "loop"
        THEN [second EXCEPT !.wrote = @ \cup first.wrote]
        ELSE first

\* process_voice_query, lines 72-83: the request is taken up
Arrive(r, path, session_id) ==
    /\ inflight[r].pc = "idle"
    /\ inflight' = [inflight EXCEPT
                       ![r] = [FlightIdle EXCEPT
                                 !.pc = "asr", !.path = path,
                                 !.session_id =
                                     IF session_id = <<>>
                                     THEN Uuid(uuid_ctr + 1)
                                     ELSE session_id]]
    /\ uuid_ctr' = IF session_id = <<>> THEN uuid_ctr + 1 ELSE uuid_ctr
    /\ UNCHANGED fs

\* process_voice_query, lines 88-101: recognition and dialogue
Recognize(r) ==
    /\ inflight[r].pc = "asr"
    /\ \E size \in 1..MaxSize, e1 \in FlightEnvs, e2 \in FlightEnvs :
         LET res == RecognizeFile(inflight[r].path, inflight[r].session_id,
                                  size, fs, e1, e2)
         IN  /\ inflight' = [inflight EXCEPT
                                ![r].pc = IF RecognitionFailed(res.a.text)
                                          THEN "done" ELSE "tts",
                                ![r].written = @ \cup res.wrote]
             /\ fs' = res.fs
    /\ UNCHANGED uuid_ctr

\* process_voice_query, lines 103-138: the reply is synthesized into a fresh
\* file and the request returns
Speak(r) ==
    /\ inflight[r].pc = "tts"
    /\ \E backend \in PersistentBackend :
         /\ fs' = Spoken(fs, GenerateFilename(uuid_ctr + 1), backend)
         /\ inflight' = [inflight EXCEPT
                            ![r].pc = "done",
                            ![r].written =
                                IF backend \in {"file", "raise_partial"}
                                THEN @ \cup {GenerateFilename(uuid_ctr + 1)}
                                ELSE @]
    /\ uuid_ctr' = uuid_ctr + 1

OtherThanFlight == <<asr_delete, asr, tts_delete, tts, req, conn, janitor>>

NextShared ==
    \/ /\ \E r \in Requests, p \in ExistingNames, s \in SessionIds \cup {<<>>} :
            Arrive(r, InPath(p), s)
       /\ UNCHANGED OtherThanFlight
    \/ /\ \E r \in Requests : Recognize(r)
       /\ UNCHANGED OtherThanFlight
    \/ /\ \E r \in Requests : Speak(r)
       /\ UNCHANGED OtherThanFlight

Init ==
    /\ fs = { InPath(n) : n \in ExistingNames }
    /\ asr_delete \in BOOLEAN
    /\ asr = AsrIdle
    /\ tts_delete \in BOOLEAN
    /\ tts = TtsIdle
    /\ uuid_ctr = 0
    /\ req = ReqIdle
    /\ conn = ConnNone
    /\ janitor = JanitorIdle
    /\ inflight = [r \in Requests |-> FlightIdle]

SpecASR == Init /\ [][NextASR]_vars

SpecTTS == Init /\ [][NextTTS]_vars

Spec == Init /\ [][Next]_vars

\* a session with both providers keeping their files
InitChat == Init /\ ~asr_delete /\ ~tts_delete

SpecChat == InitChat /\ [][NextChat]_vars

SpecJanitor == Init /\ [][NextJanitor]_vars

SpecShared == Init /\ [][NextShared]_vars

(***************************************************************************)
(* Claims about the request handlers (Spec).                               *)
(***************************************************************************)
Has(events, e) == \E i \in 1..Len(events) : events[i] = e

\* position of the first e in events, 0 when there is none
First(events, e) ==
    IF Has(events, e)
    THEN CHOOSE i \in 1..Len(events) :
            events[i] = e /\ \A j \in 1..(i - 1) : events[j] # e
    ELSE 0

\* the recognizer of the running request returned empty text
RecognizedNothing == Has(req.events, "asr_ret") /\ req.text = <<>>

\* C1: in process_voice_query, when the recognizer returns empty text the
\* request ends in failure, and neither the language model nor the
\* synthesizer is invoked in that request.
C1_EmptyRecognitionFailsRequest ==
    (req.kind = "voice" /\ RecognizedNothing) =>
        /\ req.pc = "failed"
        /\ req.response.status = "error"
        /\ req.llm_calls = 0
        /\ req.tts_calls = 0

\* a voice request whose recognizer returned empty text after an attempt
C1_Witness ==
    /\ req.kind = "voice"
    /\ RecognizedNothing
    /\ req.pc = "failed"
    /\ Has(req.events, "asr_call")

\* the turn is over and failed: the model call raised, when called or while
\* its stream was read, or the stream ended without a non-empty fragment
TurnFailed ==
    \/ conn.chat_pc = "raised"
    \/ /\ conn.chat_pc = "returned"
       /\ \/ conn.result = "None"
          \/ conn.response_message = <<>> /\ ~conn.client_abort

\* C2: in process_voice_query and text_chat, when the dialogue turn fails
\* (the model call raises, or the stream yields no non-empty fragment) the
\* request fails: the synthesizer is not invoked and no result with status
\* success is returned.
C2_FailedTurnFailsRequest ==
    (req.kind \in {"voice", "text"} /\ conn.alive /\ TurnFailed) =>
        /\ req.tts_calls = 0
        /\ req.response.status # "success"

\* the turn is over and produced a reply
TurnSucceeded ==
    /\ conn.chat_pc = "returned"
    /\ conn.result = "True"
    /\ conn.response_message # <<>>

\* C3: in process_voice_query and text_chat, when the turn succeeded and
\* synthesis produces no audio (the backend raises, or returns without
\* leaving a file), the request returns status success with the response
\* text and a null audio reference; a non-null audio reference is returned
\* only when an audio file was produced.
C3_NoAudioMeansNullReference ==
    (req.kind \in {"voice", "text"} /\ TurnSucceeded /\ req.tts_calls > 0) =>
        /\ req.tts_out \in {"raise", "raise_partial", "nofile"} =>
              /\ req.response.status = "success"
              /\ req.response.response_text = conn.tts_MessageText
              /\ req.response.audio_url = NoUrl
        /\ req.response.audio_url # NoUrl => req.audio_file \in fs

\* C4: the stages of a request run in the order recognition, dialogue,
\* synthesis: dialogue does not start before recognition returned, synthesis
\* does not start before the turn returned, and no stage starts after a
\* stage before it failed.
C4_StagesInOrderAndStopOnFailure ==
    /\ (Has(req.events, "llm_call") /\ Has(req.events, "asr_call")) =>
          /\ Has(req.events, "asr_ret")
          /\ First(req.events, "asr_ret") < First(req.events, "llm_call")
    /\ Has(req.events, "tts_call") =>
          /\ Has(req.events, "llm_ret")
          /\ First(req.events, "llm_ret") < First(req.events, "tts_call")
    /\ RecognizedNothing =>
          /\ ~Has(req.events, "llm_call")
          /\ ~Has(req.events, "tts_call")
    /\ (conn.alive /\ TurnFailed) => ~Has(req.events, "tts_call")

(***************************************************************************)
(* Claims about the recognition operations (SpecASR).                      *)
(***************************************************************************)
AsrEnded == asr.pc \in {"returned", "raised"}

\* every attempt made so far raised in the headroom check or in an I/O call
AllResourceFaults ==
    /\ asr.attempts >= 1
    /\ \A i \in 1..Len(asr.hist) : asr.hist[i].cause \in {"io", "headroom"}

\* C5: a recognition call makes at most 2 attempts, and a call whose every
\* attempt hit a resource-class fault (headroom check or I/O fault) ends
\* after exactly 2 attempts by returning empty text, without raising.
C5_RetryTwiceOnResourceFaults ==
    /\ asr.attempts <= MAX_RETRIES
    /\ (AsrEnded /\ AllResourceFaults) =>
          /\ asr.pc = "returned"
          /\ asr.text = <<>>
          /\ asr.attempts = MAX_RETRIES

\* the call was given a file that is missing or an extension that is not
\* supported
InvalidInput ==
    \/ /\ asr.op = "file"
       /\ \/ asr.path \notin fs
          \/ Lower(SplitExt(asr.path.name)) \notin supported_formats
    \/ /\ asr.op = "stream"
       /\ Lower(asr.ext) \notin supported_formats

\* C6: for an unsupported extension or a missing file, recognizeFromFile and
\* recognizeFromStream return empty text after exactly one attempt, without
\* a retry and without raising to the caller.
C6_InvalidInputReturnsEmpty ==
    (AsrEnded /\ InvalidInput) =>
        /\ asr.pc = "returned"
        /\ asr.text = <<>>
        /\ asr.attempts = 1

\* some attempt of the running call ended with the engine raising
EngineRaised ==
    \E i \in 1..Len(asr.hist) : asr.hist[i].cause = "engine"

\* C7: an exception raised by the recognition engine is never retried,
\* whatever its class: the engine is invoked exactly once in the call and the
\* call returns empty text at once.
C7_EngineFailureNotRetried ==
    EngineRaised =>
        /\ asr.pc = "returned"
        /\ asr.text = <<>>
        /\ asr.engine_calls = 1

(***************************************************************************)
(* Claims about the synthesizer (SpecTTS).                                 *)
(***************************************************************************)
\* the backend was invoked, and every invocation so far raised, returned
\* empty bytes or returned without leaving the target file
BackendAlwaysFailed ==
    /\ tts.calls >= 1
    /\ \A i \in 1..Len(tts.hist) : tts.hist[i] \in {"raise", "empty", "nofile"}

\* C8: a backend that fails on every attempt is invoked exactly 5 times in
\* one synthesis call (to_tts_stream and to_tts, both modes), and the call
\* then returns.
C8_AlwaysFailingBackendInvokedFiveTimes ==
    BackendAlwaysFailed =>
        /\ tts.calls <= max_repeat_time
        /\ (tts.pc = "returned" => tts.calls = max_repeat_time)

\* C9: when the attempts are exhausted without success, to_tts returns null
\* in both modes, and in persistent mode it never returns a path at which no
\* file exists.
C9_ExhaustedReturnsNull ==
    (tts.op = "to_tts" /\ tts.pc = "returned") =>
        /\ (tts.max_repeat_time = 0 => tts.ret = NoArtifact)
        /\ (tts.ret.kind = "path" => tts.ret.path \in fs)

\* the first two attempts failed in the backend and the third succeeded
FailsTwiceThenSucceeds ==
    /\ Len(tts.hist) >= 3
    /\ tts.hist[1] \in {"raise", "empty", "nofile"}
    /\ tts.hist[2] \in {"raise", "empty", "nofile"}
    /\ tts.hist[3] = "ok"

\* the artifact of the running call: what to_tts returns, what to_tts_stream
\* streams
TtsArtifact == IF tts.op = "to_tts" THEN tts.ret ELSE tts.streamed

\* C10: with a backend that fails on its first two attempts and succeeds on
\* the third, the call makes exactly 3 backend invocations and returns with
\* a non-null artifact, and no partial file of a failed attempt is left.
C10_SucceedsOnThirdAttempt ==
    FailsTwiceThenSucceeds =>
        /\ tts.calls = 3
        /\ tts.pc = "returned" =>
              /\ TtsArtifact # NoArtifact
              /\ ~tts.partial
              /\ (~tts_delete => tts.tmp_file \in fs)

\* a call that returned after two failed attempts and a third that succeeded
C10_Witness ==
    /\ FailsTwiceThenSucceeds
    /\ tts.pc = "returned"
    /\ ~tts_delete
    /\ TtsArtifact = PathArtifact(tts.tmp_file)

(***************************************************************************)
(* Claims about ConnectionHandler (SpecChat).                              *)
(***************************************************************************)
\* the texts of the fragments that are neither None nor empty, in order
RECURSIVE NonEmptyTexts(_)
NonEmptyTexts(f) ==
    IF f = <<>> THEN <<>>
    ELSE (IF ~Head(f).none /\ Head(f).text # <<>> THEN <<Head(f).text>>
                                                 ELSE <<>>)
         \o NonEmptyTexts(Tail(f))

\* the texts of a sequence put one after the other
RECURSIVE ConcatAll(_)
ConcatAll(parts) ==
    IF parts = <<>> THEN <<>>
    ELSE ConcatAll(SubSeq(parts, 1, Len(parts) - 1)) \o parts[Len(parts)]

\* the dialogue of the running turn before anything of the assistant
DialogueAtStream ==
    IF conn.depth = 0
    THEN Append(conn.dialogue0, Message("user", conn.query))
    ELSE conn.dialogue0

\* a chat() call is over and its caller has not yet taken the result
TurnOver == conn.alive /\ conn.chat_pc \in {"returned", "raised"}

\* C11: in chat(), when the abort flag is set after the first streamed
\* fragment has been received, no further fragment is requested from the
\* stream: the number of fragments pulled stays at 1.
C11_AbortAfterFirstFragmentStopsPulling ==
    (conn.alive /\ conn.abort_at = 1) => conn.pulled = 1

\* C12: when chat() observes the abort flag mid-stream it stops without
\* raising, reports the turn as a failure and discards what it accumulated:
\* no assistant message is appended and the response text is not updated.
C12_AbortDiscardsTurn ==
    (TurnOver /\ conn.aborted) =>
        /\ conn.chat_pc = "returned"
        /\ conn.result # "True"
        /\ conn.dialogue = DialogueAtStream
        /\ conn.tts_MessageText = conn.text0

\* the model call raised, when called or while its stream was read, or the
\* stream ended without a non-empty fragment
NothingReceived ==
    \/ conn.chat_pc = "raised"
    \/ conn.result = "None"
    \/ NonEmptyTexts(conn.frags) = <<>>

\* C13: when the stream yields no non-empty fragment, or the model call
\* raises, chat() reports failure (it does not return a success value) and
\* appends no assistant message to the dialogue.
C13_NothingReceivedReportsFailure ==
    (TurnOver /\ ~conn.aborted /\ NothingReceived) =>
        /\ conn.result # "True"
        /\ conn.dialogue = DialogueAtStream

\* the stream ended normally with a non-empty fragment and without an abort
ReplyReceived ==
    /\ TurnOver
    /\ conn.result # "None"
    /\ ~conn.breaks
    /\ ~conn.aborted
    /\ NonEmptyTexts(conn.frags) # <<>>

\* C14: when the stream yields at least one non-empty fragment and is not
\* aborted, chat() reports success, the response text is the concatenation
\* of all non-empty fragments in arrival order, and exactly one assistant
\* message with that text is appended as the last message of the dialogue.
C14_ReplyIsConcatenationAppendedOnce ==
    ReplyReceived =>
        /\ conn.chat_pc = "returned"
        /\ conn.result = "True"
        /\ conn.tts_MessageText = ConcatAll(NonEmptyTexts(conn.frags))
        /\ conn.dialogue =
              Append(DialogueAtStream,
                     Message("assistant", ConcatAll(NonEmptyTexts(conn.frags))))

\* the second turn of a session returned a reply made of two different
\* fragments
C14_Witness ==
    /\ ReplyReceived
    /\ conn.turns = 2
    /\ conn.dialogue0 # <<>>
    /\ NonEmptyTexts(conn.frags) = << <<98>>, <<97>> >>

\* C15: llm_finish_task is false while a chat() call is executing and true
\* whenever none is: after every return from chat(), on success or on
\* failure (a raising model call included), the flag is true again.
C15_FinishFlagTrueOutsideCalls ==
    conn.alive =>
        /\ (conn.chat_pc = "stream" => ~conn.llm_finish_task)
        /\ (conn.chat_pc \in {"idle", "returned", "raised"} =>
               conn.llm_finish_task)

C17_CloseNeverRaisesAndReleases ==
    (conn.alive /\ conn.close_calls > 0) =>
        /\ conn.close_raised = "none"
        /\ conn.tts_close_calls = conn.close_calls

(***************************************************************************)
(* Claims about the janitor (SpecJanitor).                                 *)
(***************************************************************************)
\* C18: _schedule_delete(path, delay) never deletes the file before the
\* delay has elapsed; once it has, the file is deleted if and only if it
\* still exists then, after which it does not exist; a missing file or a
\* failing delete raises nothing out of the janitor and is not retried.
C18_DeletesOnlyAfterDelayIfPresent ==
    /\ janitor.raised = "none"
    /\ janitor.removes <= 1
    /\ janitor.pc = "sleeping" => janitor.removes = 0
    /\ janitor.pc = "done" =>
          /\ janitor.woke_at >= janitor.delay
          /\ janitor.removes = 1 <=> janitor.existed
          /\ janitor.remove_ok => ~janitor.left
          /\ ~janitor.existed => ~janitor.left

\* a janitor with a delay removed a file that was still there
C18_Witness ==
    /\ janitor.pc = "done"
    /\ janitor.delay > 0
    /\ janitor.existed
    /\ janitor.remove_ok
    /\ janitor.path \notin fs

(***************************************************************************)
(* Claims about the files of the recognition operations (SpecASR).         *)
(***************************************************************************)
\* C19: in every recognition operation the headroom check fails an attempt
\* exactly when the free space is less than twice the payload size; it runs
\* only when retention is enabled and is skipped in ephemeral mode; an
\* attempt whose check fails writes no file to the output directory.
C19_HeadroomCheckGuardsRetention ==
    /\ \A i \in 1..Len(asr.hist) :
          LET h == asr.hist[i]
          IN  /\ asr_delete => (~h.check /\ h.cause # "headroom")
              /\ h.cause = "headroom" =>
                    (h.check /\ ~h.write /\ h.added = {})
              /\ (~asr_delete /\ h.cause \in {"none", "engine"}) => h.check
    /\ asr.hist # <<>> =>
          LET last == asr.hist[Len(asr.hist)]
          IN  /\ last.check <=> asr.free_space # NoReading
              /\ last.check =>
                    (last.cause = "headroom" <=>
                         asr.free_space < 2 * asr.size)

\* a call with retention whose first attempt failed the check on a volume
\* with some free space, and whose second attempt passed it and wrote
C19_Witness ==
    /\ ~asr_delete
    /\ asr.pc = "returned"
    /\ Len(asr.hist) = 2
    /\ asr.hist[1].cause = "headroom"
    /\ asr.hist[2].cause = "none"
    /\ asr.hist[2].added # {}
    /\ asr.free_space = 2 * asr.size

\* the files under the output directory of the recognizer
OutFiles(files) == { p \in files : p.dir = "out" }

\* <session id><extension> under the output directory, the extension being
\* the format extension the operation computed from the caller's file
RetainedCopy == OutPath(asr.session_id \o Lower(SplitExt(asr.path.name)))

\* the last attempt of the running call returned from the try body
RecognitionSucceeded ==
    /\ asr.hist # <<>>
    /\ asr.hist[Len(asr.hist)].exc = "none"

\* C20: after speech_to_text_from_audio_file returns, on every exit path,
\* the caller's file still exists; with retention disabled the files of the
\* output directory are those of before the call; with retention enabled
\* and a successful recognition the only file added is <session
\* id><extension> under the output directory, it exists after the call and
\* its path is the one the result carries.
C20_FileCallKeepsCallersFile ==
    (asr.op = "file" /\ asr.pc = "returned") =>
        /\ asr.path \in asr.fs0 => asr.path \in fs
        /\ asr_delete => OutFiles(fs) = OutFiles(asr.fs0)
        /\ (~asr_delete /\ RecognitionSucceeded) =>
              /\ (fs \ asr.fs0) \subseteq {RetainedCopy}
              /\ RetainedCopy \in fs
              /\ asr.file_path = RetainedCopy

\* a.WAV was recognized with retention and its copy was added
C20_Witness ==
    /\ asr.op = "file"
    /\ asr.pc = "returned"
    /\ ~asr_delete
    /\ RecognitionSucceeded
    /\ asr.path = InPath(<<97, 46, 87, 65, 86>>)
    /\ RetainedCopy \in fs \ asr.fs0
    /\ asr.path \in fs

(***************************************************************************)
(* Claims about the files and the stream of the synthesizer (SpecTTS).     *)
(***************************************************************************)
\* C21: in persistent mode each attempt of one synthesis call writes to a
\* freshly generated filename: no two attempts of the same call target the
\* same path.
C21_EachAttemptHasFreshFilename ==
    ~tts_delete =>
        \A i, j \in 1..Len(tts.targets) :
            i # j => tts.targets[i] # tts.targets[j]

\* C24: every synthesis call (to_tts_stream and to_tts, both modes) ends
\* after at most 5 backend invocations, whatever the backend does, also when
\* in persistent mode it returns without raising and without creating the
\* file.
C24_AtMostFiveInvocations == tts.calls <= max_repeat_time

\* C25: in one ephemeral to_tts_stream call the chunks handed to the callback
\* are the encoded chunks of one audio buffer, each once and in playback
\* order: a failure while encoding, after some chunks were delivered, never
\* has a retried attempt deliver earlier chunks again.
C25_ChunksOfOneBufferOnce ==
    (tts_delete /\ tts.op = "to_tts_stream") =>
        \A i \in 1..Len(tts.delivered) :
            /\ tts.delivered[i].buf = tts.delivered[1].buf
            /\ tts.delivered[i].seq = i

(***************************************************************************)
(* Claims about what the calls hand back.                                  *)
(***************************************************************************)
\* every attempt of the running recognition call failed the headroom check
AllHeadroomFailures ==
    /\ asr.hist # <<>>
    /\ \A i \in 1..Len(asr.hist) : asr.hist[i].cause = "headroom"

\* C26: whenever a recognition operation with retention enabled returns a
\* result with a non-null artifact path, a file exists at that path when the
\* call returns; a call whose attempts all failed the headroom check returns
\* no artifact path.
C26_ReturnedArtifactExists ==
    (~asr_delete /\ asr.pc = "returned") =>
        /\ asr.file_path # None => asr.file_path \in fs
        /\ AllHeadroomFailures => asr.file_path = None

\* C27: after a chat() call that returns a success value, tts_MessageText is
\* the text produced by that same turn: never the response of an earlier
\* turn and never empty.
C27_ResponseTextIsOfThisTurn ==
    (TurnOver /\ conn.result = "True") =>
        /\ conn.tts_MessageText # <<>>
        /\ conn.tts_MessageText = ConcatAll(conn.response_message)

\* C28: within one process_voice_query request there is a single session
\* identity: the session id passed to the recognizer, the one passed to the
\* language model and the one returned in the result are equal.
C28_OneSessionIdentity ==
    req.kind = "voice" =>
        /\ asr.pc # "idle" => asr.session_id = req.session_id
        /\ req.llm_calls > 0 => conn.llm_session = req.session_id
        /\ req.response.status = "success" =>
              req.response.session_id = req.session_id

(***************************************************************************)
(* Claims about the dialogue over the calls of a session (SpecChat).       *)
(***************************************************************************)
IsPrefix(a, b) == Len(a) <= Len(b) /\ SubSeq(b, 1, Len(a)) = a

\* the step enters chat()
ChatEntered == conn.chat_pc = "idle" /\ conn'.turns = conn.turns + 1

\* C23: the dialogue is append-only across any sequence of chat() calls: a
\* top-level call (depth 0) appends exactly one user message with the query
\* before the model is called, a nested call (depth > 0) appends no user
\* message, and no call removes, reorders or changes a message already in
\* the dialogue.
C23_DialogueAppendOnly ==
    [][ (conn.alive /\ conn'.alive) =>
          /\ IsPrefix(conn.dialogue, conn'.dialogue)
          /\ ChatEntered =>
                /\ conn'.dialogue = conn'.llm_dialogue
                /\ conn'.llm_dialogue =
                      IF conn'.depth = 0
                      THEN Append(conn.dialogue, Message("user", conn'.query))
                      ELSE conn.dialogue
          /\ ~ChatEntered =>
                \A i \in (Len(conn.dialogue) + 1)..Len(conn'.dialogue) :
                    conn'.dialogue[i].role # "user"
      ]_vars

\* a nested call on a session that has a dialogue returned with its reply
\* appended
C23_Witness ==
    /\ TurnOver
    /\ conn.depth = 1
    /\ conn.dialogue0 # <<>>
    /\ conn.llm_dialogue = conn.dialogue0
    /\ Len(conn.dialogue) = Len(conn.dialogue0) + 1

(***************************************************************************)
(* Claims about requests served side by side (SpecShared).                 *)
(***************************************************************************)
\* request r has been taken up and has not returned
InFlight(r) == inflight[r].pc \in {"asr", "tts"}

\* C22: across concurrently running requests, every file written into the
\* shared output directory (retained recognition artifacts and synthesis
\* outputs) has a path no other in-flight request writes to, also when two
\* requests carry the same caller-supplied session id and the same
\* extension.
C22_NoTwoRequestsWriteOnePath ==
    \A r1, r2 \in Requests :
        (r1 # r2 /\ InFlight(r1) /\ InFlight(r2)) =>
            inflight[r1].written \cap inflight[r2].written = {}
====
